---- MODULE Spec2Model ----
(***************************************************************************)
(* SaverBot (src/src/lib.rs): the tick-driven controller of a robot that   *)
(* collects coins, looks for banks and deposits the coins.                 *)
(*                                                                         *)
(* The controller is modelled statement by statement; its position inside  *)
(* process_tick is the variable pc.  The collaborators it calls            *)
(* (robotics_lib: where_am_i, go, put, destroy; charting_tools:            *)
(* ChartedMap; searchtool_unwrap; arrusticini_destroy_zone; recycle) are   *)
(* not part of the repository: they are modelled from the interface the    *)
(* controller uses (spec.md, section 6) as a grid world.                   *)
(*                                                                         *)
(* Coordinates are <<row, col>>.  Direction Down increases the row and     *)
(* Right increases the column (reach_position, lib.rs:282-293).            *)
(***************************************************************************)
EXTENDS Integers, Sequences, FiniteSets, TLC

(***************************************************************************)
(* Bounds of the model.                                                    *)
(***************************************************************************)
MaxRow == 4
MaxCol == 4
MaxEnergy == 600
MaxSaved == 12
MaxGoCalls == 2
MaxFilled == 1

(***************************************************************************)
(* Program constants.                                                      *)
(***************************************************************************)
TickEnergy == 150
StepEnergy == 50
HarvestEnergy == 400
FinishEnergy == 500
CoinLimit == 12
GarbageLimit == 5
RockLimit == 3
RockGoal == 8
FarAway == 1000
SearchDepth == 2
RandomSteps == 4

VARIABLES
  content,       \* world: tile content of every coordinate of the grid
  walkable,      \* world: coordinates whose tile type can be walked on
  street,        \* world: coordinates whose tile has been turned into street
  checked,       \* build: TRUE when integer overflow checks are compiled in
  pos,           \* robot.coordinate
  energy,        \* robot.energy
  backpack,      \* robot.backpack contents (coin, rock, garbage)
  state,         \* SaverBot.state
  goal,          \* SaverBot.goal: <<>> is None, <<g>> is Some(g)
  saved,         \* SaverBot.saved
  free_banks,    \* SaverBot.free_banks
  filled_banks,  \* SaverBot.filled_banks
  used_banks,    \* SaverBot.used_banks
  seen,          \* SaverBot.seen
  pc,            \* position of the controller inside process_tick
  loc,           \* local variables of the running handlers
  obs            \* what the running tick has done so far (observation only)

worldVars == <<content, walkable, street, checked>>
robotVars == <<pos, energy, backpack>>
botVars == <<state, goal, saved, free_banks, filled_banks, used_banks, seen>>
vars == <<content, walkable, street, checked, pos, energy, backpack, state, goal,
          saved, free_banks, filled_banks, used_banks, seen, pc, loc, obs>>

(***************************************************************************)
(* The grid world.                                                         *)
(***************************************************************************)
Rows == 0..MaxRow
Cols == 0..MaxCol
Grid == Rows \X Cols
Directions == {"Up", "Down", "Left", "Right"}
Quadrants == <<"BottomLeft", "BottomRight", "TopLeft", "TopRight">>
Kinds == {"None", "Coin", "Rock", "Garbage", "Tree", "Fish", "Bank"}

Nothing == [kind |-> "None", n |-> 0]
Bank(c) == [kind |-> "Bank", n |-> c]
Coin(c) == [kind |-> "Coin", n |-> c]
Rock(c) == [kind |-> "Rock", n |-> c]
Garbage(c) == [kind |-> "Garbage", n |-> c]
Tree(c) == [kind |-> "Tree", n |-> c]

COIN_LOOKING_FOR == <<Coin(0), Rock(0), Garbage(0),
                      [kind |-> "Tree", n |-> 0], [kind |-> "Fish", n |-> 0]>>
ROCK_LOOKING_FOR == <<Rock(0)>>
BANK_LOOKING_FOR == <<Bank(0)>>

Abs(i) == IF i < 0 THEN -i ELSE i
Min(a, b) == IF a < b THEN a ELSE b
Range(s) == {s[i] : i \in 1..Len(s)}
Contains(s, e) == \E i \in 1..Len(s) : s[i] = e

Step(p, d) ==
  CASE d = "Up" -> <<p[1] - 1, p[2]>>
    [] d = "Down" -> <<p[1] + 1, p[2]>>
    [] d = "Left" -> <<p[1], p[2] - 1>>
    [] d = "Right" -> <<p[1], p[2] + 1>>

\* where_am_i: the 3x3 window; tile (i, j) of it lies at (row+i-1, col+j-1)
\* and is absent outside the grid.
WindowCoord(p, i, j) == <<p[1] + i - 1, p[2] + j - 1>>
WindowIdx == <<<<0, 0>>, <<0, 1>>, <<0, 2>>, <<1, 0>>, <<1, 1>>, <<1, 2>>,
               <<2, 0>>, <<2, 1>>, <<2, 2>>>>
Present(p, i, j) == WindowCoord(p, i, j) \in Grid

\* Left fold of Op over the elements of the sequence s, in order.
RECURSIVE FoldFrom(_, _, _, _)
FoldFrom(FoldOp(_, _), foldAcc, foldSeq, foldIdx) ==
  IF foldIdx > Len(foldSeq) THEN foldAcc
  ELSE LET foldNext == FoldOp(foldAcc, foldSeq[foldIdx])
       IN IF foldNext = foldNext
            THEN FoldFrom(FoldOp, foldNext, foldSeq, foldIdx + 1)
            ELSE foldNext
FoldSeq(FoldOp(_, _), foldAcc, foldSeq) == FoldFrom(FoldOp, foldAcc, foldSeq, 1)

(***************************************************************************)
(* charting_tools::ChartedMap<Content>, as the controller uses it: a map   *)
(* from the content kind to the vector of coordinates saved under it.      *)
(* Only the key Bank is ever used, so the map is the pair (key present,    *)
(* vector).  save appends, remove deletes the coordinate and keeps the     *)
(* key, get is None without the key.                                       *)
(***************************************************************************)
EmptyMap == [key |-> FALSE, banks |-> <<>>]
MapSave(m, c) == [key |-> TRUE, banks |-> Append(m.banks, c)]
MapRemove(m, c) ==
  [key |-> m.key,
   banks |-> SelectSeq(m.banks, LAMBDA b : b # c)]
MapCoords(m) == Range(m.banks)

(***************************************************************************)
(* closest_bank (lib.rs:604-622): linear scan of free_banks for the        *)
(* smallest Manhattan distance, strict <, starting from (0, 0) and 1000.   *)
(***************************************************************************)
Manhattan(a, b) == Abs(a[1] - b[1]) + Abs(a[2] - b[2])
ClosestStep(p, acc, b) ==
  IF Manhattan(b, p) < acc.distance
    THEN [closest |-> b, distance |-> Manhattan(b, p)]
    ELSE acc
closest_bank(fb, p) ==
  LET Scan(acc, b) == ClosestStep(p, acc, b)
  IN FoldSeq(Scan, [closest |-> <<0, 0>>, distance |-> FarAway], fb.banks).closest

(***************************************************************************)
(* look_for_unknown_banks (lib.rs:487-515): every bank tile of the window  *)
(* whose coordinate is not among the coordinates free_banks held when the  *)
(* call began is saved into free_banks.                                    *)
(***************************************************************************)
IsBankTile(cont, p, ij) ==
  /\ Present(p, ij[1], ij[2])
  /\ cont[WindowCoord(p, ij[1], ij[2])].kind = "Bank"
look_for_unknown_banks(fb, cont, p) ==
  LET seend_coord == MapCoords(fb)
      Visit(acc, ij) ==
        IF IsBankTile(cont, p, ij) /\ WindowCoord(p, ij[1], ij[2]) \notin seend_coord
          THEN MapSave(acc, WindowCoord(p, ij[1], ij[2]))
          ELSE acc
  IN FoldSeq(Visit, fb, WindowIdx)

(***************************************************************************)
(* The robot's actions on the world (robotics_lib::interface).  A robot    *)
(* and world state is the record [content, backpack, energy, pos].         *)
(***************************************************************************)
Cost == [go |-> 50, destroy |-> 50, search |-> 50, asfalting |-> 50]
Destroyable == {"Coin", "Rock", "Garbage", "Tree", "Fish"}

AddToBackpack(bp, c) ==
  CASE c.kind = "Coin" -> [bp EXCEPT !.coin = @ + c.n]
    [] c.kind = "Rock" -> [bp EXCEPT !.rock = @ + c.n]
    [] c.kind = "Garbage" -> [bp EXCEPT !.garbage = @ + c.n]
    [] OTHER -> bp

\* go(direction): one tile in the direction when that tile is in the grid,
\* can be walked on and the energy pays for the step; otherwise an error
\* that changes nothing.
GoOk(s, d) ==
  /\ Step(s.pos, d) \in Grid
  /\ Step(s.pos, d) \in walkable
  /\ s.energy >= Cost.go
Go(s, d) ==
  IF GoOk(s, d)
    THEN [s EXCEPT !.pos = Step(s.pos, d), !.energy = @ - Cost.go]
    ELSE s

\* destroy(direction): the content of the adjacent tile moves into the
\* backpack; an error that changes nothing when there is nothing to destroy
\* there or the energy does not pay for it.
DestroyOk(s, t) ==
  /\ t \in Grid
  /\ s.content[t].kind \in Destroyable
  /\ s.energy >= Cost.destroy
DestroyTile(s, t) ==
  IF DestroyOk(s, t)
    THEN [s EXCEPT !.content[t] = Nothing,
                   !.backpack = AddToBackpack(@, s.content[t]),
                   !.energy = @ - Cost.destroy]
    ELSE s

\* DestroyZone.execute(content): destroys every tile of the given kind
\* among the eight tiles around the robot.
Around == <<<<0, 0>>, <<0, 1>>, <<0, 2>>, <<1, 0>>, <<1, 2>>,
            <<2, 0>>, <<2, 1>>, <<2, 2>>>>
DestroyZone(s, wanted) ==
  LET Visit(acc, ij) ==
        LET t == WindowCoord(acc.pos, ij[1], ij[2])
        IN IF t \in Grid /\ acc.content[t].kind = wanted.kind
             THEN DestroyTile(acc, t)
             ELSE acc
  IN FoldSeq(Visit, s, Around)

\* put(content, quantity, direction): a bank stores what its remaining
\* capacity allows, an empty tile takes the whole quantity, anything else
\* (another content, outside the grid) is an error that changes nothing.
\* The result is <<accepted>> for Ok(accepted) and <<>> for Err.
PutTarget(s, d) == Step(s.pos, d)
PutResult(s, q, d) ==
  LET t == PutTarget(s, d)
  IN IF t \notin Grid THEN <<>>
     ELSE IF s.content[t].kind = "Bank" THEN <<Min(q, s.content[t].n)>>
     ELSE IF s.content[t].kind = "None" THEN <<q>>
     ELSE <<>>
PutItem(bp, kind, q) ==
  CASE kind = "Coin" -> [bp EXCEPT !.coin = @ - q]
    [] kind = "Garbage" -> [bp EXCEPT !.garbage = @ - q]
    [] kind = "Rock" -> [bp EXCEPT !.rock = @ - q]
Put(s, kind, q, d) ==
  LET t == PutTarget(s, d)
      r == PutResult(s, q, d)
  IN IF r = <<>> THEN s
     ELSE IF s.content[t].kind = "Bank"
       THEN [s EXCEPT !.content[t] = Bank(@.n - r[1]),
                      !.backpack = PutItem(@, kind, r[1])]
     ELSE IF r[1] = 0 THEN s
     ELSE [s EXCEPT !.content[t] = [kind |-> kind, n |-> r[1]],
                    !.backpack = PutItem(@, kind, r[1])]

\* SearchTool::look_for_this_content(contents, 2, direction): the
\* coordinates of the quadrant, up to the depth on both axes, whose content
\* is of one of the kinds looked for, in row-major order.
QuadrantSign(q) ==
  CASE q = "BottomLeft" -> <<1, -1>>
    [] q = "BottomRight" -> <<1, 1>>
    [] q = "TopLeft" -> <<-1, -1>>
    [] q = "TopRight" -> <<-1, 1>>
InQuadrant(p, q, t) ==
  LET dr == (t[1] - p[1]) * QuadrantSign(q)[1]
      dc == (t[2] - p[2]) * QuadrantSign(q)[2]
  IN dr \in 0..SearchDepth /\ dc \in 0..SearchDepth /\ t # p
RowMajor(S) ==
  LET key(t) == t[1] * (MaxCol + 1) + t[2]
      keys == {key(t) : t \in S}
      nth[i \in 0..Cardinality(S)] ==
        IF i = 0 THEN <<>>
        ELSE LET rest == {t \in S : \A k \in 1..(i - 1) : nth[i - 1][k] # t}
                 m == CHOOSE t \in rest : \A u \in rest : key(t) <= key(u)
             IN Append(nth[i - 1], m)
  IN nth[Cardinality(S)]
SearchOk(s) == s.energy >= Cost.search
SearchFound(s, kinds, q) ==
  RowMajor({t \in Grid : InQuadrant(s.pos, q, t) /\ s.content[t].kind \in kinds})

(***************************************************************************)
(* destroy_area (lib.rs:380-432).  With no known bank at one of the listed *)
(* offsets the zone is destroyed for every content of looking_for; else    *)
(* the tiles of the window are visited one by one.  The result carries the *)
(* path taken and the destroy calls of the second path.                    *)
(***************************************************************************)
Directs == <<<<-1, -1>>, <<-1, 0>>, <<-1, 1>>, <<0, -1>>, <<0, 0>>, <<0, 1>>,
             <<1, -1>>, <<1, 0>>, <<1, -1>>>>
BanksPoints(fb, filled) == MapCoords(fb) \cup MapCoords(filled)
Good(p, banks_points) ==
  \A k \in 1..Len(Directs) :
    <<p[1] + Directs[k][1], p[2] + Directs[k][2]>> \notin banks_points
TileDirection(ij) ==
  IF ij[1] > 1 THEN "Down"
  ELSE IF ij[1] < 1 THEN "Up"
  ELSE IF ij[2] > 1 THEN "Right"
  ELSE "Left"
WantedTile(tiles, p, ij) ==
  /\ Present(p, ij[1], ij[2])
  /\ Contains(COIN_LOOKING_FOR, tiles[WindowCoord(p, ij[1], ij[2])])
  /\ tiles[WindowCoord(p, ij[1], ij[2])] # Bank(0)
DestroyPerTile(s) ==
  LET tiles == s.content
      Visit(acc, ij) ==
        IF WantedTile(tiles, s.pos, ij)
          THEN [s |-> DestroyTile(acc.s, Step(s.pos, TileDirection(ij))),
                calls |-> acc.calls \cup {<<ij, TileDirection(ij), acc.s.energy>>}]
          ELSE acc
  IN FoldSeq(Visit, [s |-> s, calls |-> {}], WindowIdx)
RECURSIVE DestroyFrom(_, _)
DestroyFrom(s, k) ==
  IF k > Len(COIN_LOOKING_FOR) THEN s
  ELSE LET after == DestroyZone(s, COIN_LOOKING_FOR[k])
       IN IF after = after THEN DestroyFrom(after, k + 1) ELSE after
DestroyAll(s) == DestroyFrom(s, 1)
destroy_area(s, fb, filled) ==
  IF Good(s.pos, BanksPoints(fb, filled))
    THEN [s |-> DestroyAll(s), path |-> "zone", calls |-> {}]
    ELSE [s |-> DestroyPerTile(s).s, path |-> "tile",
          calls |-> DestroyPerTile(s).calls]

(***************************************************************************)
(* Unsigned subtraction.  usize values are kept as integers; a negative    *)
(* result stands for the wrapped value 2^64 + v of a build without         *)
(* overflow checks, which equals no coordinate of the grid.  A build with  *)
(* overflow checks panics instead.                                         *)
(***************************************************************************)
Underflows(a, b) == a < b

(***************************************************************************)
(* check_if_seen (lib.rs:297-304) and the choice of the quadrants of       *)
(* wander_in_seach_of (lib.rs:523-560).                                    *)
(***************************************************************************)
check_if_seen(sn, x, y) == \E k \in 1..Len(sn) : sn[k][1] = <<x, y>>
ProbePoint(p, q) == <<p[1] + 2 * QuadrantSign(q)[1], p[2] + 2 * QuadrantSign(q)[2]>>
ProbePanics(p) == Underflows(p[1], 2) \/ Underflows(p[2], 2)
Unseen(sn, p) ==
  SelectSeq(Quadrants,
            LAMBDA q : ~check_if_seen(sn, ProbePoint(p, q)[1], ProbePoint(p, q)[2]))
\* All four quadrants whatever has been seen, to tell the two apart.
where_can_i_go_anywhere(sn, p) == Quadrants
where_can_i_go(sn, p) ==
  IF Len(Unseen(sn, p)) = 0 THEN Quadrants ELSE Unseen(sn, p)

(***************************************************************************)
(* The deposit direction of go_to_closest_open_bank (lib.rs:470-485) and   *)
(* go_to_closest_used_bank (lib.rs:722-737): the first bank tile of the    *)
(* window in scan order decides; "None" without one.                       *)
(***************************************************************************)
BankTiles(cont, p) == SelectSeq(WindowIdx, LAMBDA ij : IsBankTile(cont, p, ij))
DirOf(p, ij) ==
  IF p[1] + 1 = ij[1] THEN "Up"
  ELSE IF p[1] - 1 = ij[1] THEN "Down"
  ELSE IF p[2] + 1 = ij[2] THEN "Left"
  ELSE "Right"
DirPanics(p, ij) == p[1] + 1 # ij[1] /\ Underflows(p[1], 1)
ScanDirection(cont, p) ==
  IF Len(BankTiles(cont, p)) = 0 THEN "None" ELSE DirOf(p, BankTiles(cont, p)[1])
ScanPanics(cont, p) ==
  Len(BankTiles(cont, p)) > 0 /\ DirPanics(p, BankTiles(cont, p)[1])

(***************************************************************************)
(* The found banks of a probe merged into free_banks (lib.rs:567-578):     *)
(* a found coordinate is saved once for every coordinate that free_banks   *)
(* holds under the key Bank and that differs from it; nothing is saved     *)
(* without the key.                                                        *)
(***************************************************************************)
RECURSIVE SaveTimes(_, _, _)
SaveTimes(m, c, n) == IF n = 0 THEN m ELSE SaveTimes(MapSave(m, c), c, n - 1)
MergeFound(fb, found) ==
  LET Visit(acc, t) ==
        IF acc.key
          THEN SaveTimes(acc, t, Len(SelectSeq(acc.banks, LAMBDA b : b # t)))
          ELSE acc
  IN FoldSeq(Visit, fb, found)

\* The heap of a probe for collectables (lib.rs:580-588) and its pop: a
\* BinaryHeap hands out its greatest element.
HeapOf(p, found) == {<<Manhattan(t, p), t[1], t[2]>> : t \in Range(found)}
TupleLess(a, b) ==
  \/ a[1] < b[1]
  \/ a[1] = b[1] /\ a[2] < b[2]
  \/ a[1] = b[1] /\ a[2] = b[2] /\ a[3] < b[3]
HeapPop(h) == CHOOSE a \in h : \A b \in h : b = a \/ TupleLess(b, a)

(***************************************************************************)
(* The exits of the handlers.                                              *)
(***************************************************************************)
\* coin_collect, lib.rs:363
GoalInReach(g, sv, bp) == g # <<>> /\ g[1] <= sv + bp.coin
\* The two tests of the exit in the other order, to tell the two apart.
coin_collect_exit_trade_first(bp, st) ==
  IF bp.garbage >= GarbageLimit \/ bp.rock >= RockLimit THEN "Trading"
  ELSE IF bp.coin >= CoinLimit THEN "Saving"
  ELSE st
\* coin_collect, lib.rs:374-378
coin_collect_exit(bp, st) ==
  IF bp.coin >= CoinLimit THEN "Saving"
  ELSE IF bp.garbage >= GarbageLimit \/ bp.rock >= RockLimit THEN "Trading"
  ELSE st
\* The exit of trade towards RockCollecting, to tell the two apart.
trade_exit_to_rocks(bp) == IF bp.coin >= CoinLimit THEN "Saving" ELSE "RockCollecting"
\* trade, lib.rs:354-359
trade_exit(bp) == IF bp.coin >= CoinLimit THEN "Saving" ELSE "CoinCollecting"
\* rock_collect, lib.rs:443-445
rock_collect_exit(bp, st) == IF bp.rock >= RockGoal THEN "Finish" ELSE st
\* save, lib.rs:666-674
save_ok_exit(g, sv) ==
  IF g # <<>> /\ sv >= g[1] THEN "RockCollecting" ELSE "CoinCollecting"
\* save, lib.rs:679-687
save_none_exit(g, sv) ==
  IF g # <<>> /\ sv >= g[1] THEN "RockCollecting" ELSE "BankSearching"

(***************************************************************************)
(* save, lib.rs:650-664: the bookkeeping of a deposit that returned        *)
(* Ok(quantity), offered from the position p, with (cx, cy) = c0.          *)
(***************************************************************************)
FreeAfterPut(fb, c0, quantity) ==
  IF quantity = 0 THEN MapRemove(fb, c0) ELSE fb
\* filled_banks.save outside the test of the quantity, to tell the two apart.
FilledAfterPutAlways(filled, c0, quantity) == MapSave(filled, c0)
FilledAfterPut(filled, c0, quantity) ==
  IF quantity = 0 THEN MapSave(filled, c0) ELSE filled
\* The accepted quantity taken off saved instead of added, to tell the two apart.
SavedAfterPutTaken(sv, quantity) == sv - quantity
SavedAfterPut(sv, quantity) == sv + quantity
\* The entry overwritten with the quantity instead of increased by it, to
\* tell the two apart.
UsedAfterPutOverwritten(used, p, quantity) ==
  [t \in (DOMAIN used) \cup {p} |-> IF t = p THEN quantity ELSE used[t]]
UsedAfterPut(used, p, quantity) ==
  LET value == IF p \in DOMAIN used THEN used[p] ELSE 0
  IN [t \in (DOMAIN used) \cup {p} |-> IF t = p THEN value + quantity ELSE used[t]]

\* recycle(robot, 0): five pieces of garbage become one coin.
Recycle == [garbage |-> 5, coin |-> 1]
RecycleOk(bp) == bp.garbage >= Recycle.garbage
Recycled(bp) ==
  IF RecycleOk(bp)
    THEN [bp EXCEPT !.garbage = @ - Recycle.garbage, !.coin = @ + Recycle.coin]
    ELSE bp

(***************************************************************************)
(* reach_position (lib.rs:280-295): the guards of its four loops and its   *)
(* result.                                                                 *)
(***************************************************************************)
has_enough_energy(e, n) == e >= n
\* The first loop without its energy test, to tell the two apart.
RpDownGuardAnyEnergy(p, t, e) == p[1] < t[1]
RpDownGuard(p, t, e) == p[1] < t[1] /\ has_enough_energy(e, StepEnergy)
RpUpGuard(p, t, e) == p[1] > t[1] /\ has_enough_energy(e, StepEnergy)
RpRightGuard(p, t, e) == p[2] < t[2] /\ has_enough_energy(e, StepEnergy)
RpLeftGuard(p, t, e) == p[2] > t[2] /\ has_enough_energy(e, StepEnergy)
RpResult(p, t) == p[1] = t[1] /\ p[2] = t[2]

(***************************************************************************)
(* The state machine.                                                      *)
(***************************************************************************)
S == [content |-> content, backpack |-> backpack, energy |-> energy, pos |-> pos]
SetS(s) ==
  /\ content' = s.content
  /\ backpack' = s.backpack
  /\ energy' = s.energy
  /\ pos' = s.pos

LocIdle ==
  [tgt |-> <<0, 0>>, rpRet |-> "done", wRet |-> "done", wKind |-> "coin",
   c0 |-> <<0, 0>>, p0 |-> <<0, 0>>, dir |-> "None", heap |-> {}, k |-> 0]
ObsIdle ==
  [handler |-> "None", goOk |-> 0, goErr |-> 0, rp0 |-> <<0, 0>>, e0 |-> 0,
   reached |-> <<>>, quad |-> "None", eligible |-> {}, probeAt |-> <<0, 0>>,
   put |-> <<>>]

HandlerPc(st) ==
  CASE st = "CoinCollecting" -> "coin_collect"
    [] st = "RockCollecting" -> "rock_collect"
    [] st = "Finish" -> "finish"
    [] st = "Saving" -> "save"
    [] st = "Enjoying" -> "enjoy"
    [] st = "Trading" -> "trade"
    [] st = "BankSearching" -> "search_for_bank"

\* The tile where_am_i hands out for a coordinate: its type, its content and
\* its elevation.  The worlds are flat; a tile is street once paved, and
\* otherwise of a type that can be walked on or of one that cannot.
TileAt(cont, w, st, t) ==
  [tile_type |-> IF t \in st THEN "Street" ELSE IF t \in w THEN "Grass" ELSE "DeepWater",
   content |-> cont[t],
   elevation |-> 0]
\* The present tiles of the window as the entries (coordinate, tile) of
\* seen, in the order of the two loops (lib.rs:177-190).
WindowSeen(cont, w, st, p) ==
  LET present == SelectSeq(WindowIdx, LAMBDA ij : Present(p, ij[1], ij[2]))
  IN [k \in 1..Len(present) |->
        <<WindowCoord(p, present[k][1], present[k][2]),
          TileAt(cont, w, st, WindowCoord(p, present[k][1], present[k][2]))>>]
\* lib.rs:183-184: the entry is pushed unless the vector holds an equal one.
record_seen(sn, e) == IF Contains(sn, e) THEN sn ELSE Append(sn, e)

\* Runner: the energy supply is followed while saved and filled_banks are
\* within the bounds; past them no recharge event is delivered any more.
RunFollowed(sv, filled) == sv <= MaxSaved /\ Len(filled.banks) <= MaxFilled
\* Runner: the energy recharges between two ticks.
Recharge ==
  /\ pc = "idle"
  /\ RunFollowed(saved, filled_banks)
  /\ energy + StepEnergy <= MaxEnergy
  /\ energy' = energy + StepEnergy
  /\ UNCHANGED <<content, walkable, street, checked, pos, backpack, botVars, pc, loc, obs>>

\* Every tick admitted whatever the energy, to tell the two apart.
AdmittedAlways(e) == TRUE
\* process_tick, lib.rs:172: the energy gate.
Admitted(e) == has_enough_energy(e, TickEnergy)
\* process_tick, lib.rs:168-214: the two utility calls, the energy gate, the
\* update of seen and the dispatch on the state.
ProcessTick ==
  /\ pc = "idle"
  /\ LET fb == look_for_unknown_banks(free_banks, content, pos)
         d == destroy_area(S, fb, filled_banks)
     IN /\ free_banks' = fb
        /\ SetS(d.s)
        /\ IF ~Admitted(d.s.energy)
             THEN /\ pc' = "done"
                  /\ obs' = [ObsIdle EXCEPT !.handler = "gate"]
                  /\ UNCHANGED seen
             ELSE /\ pc' = HandlerPc(state)
                  /\ obs' = [ObsIdle EXCEPT !.handler = state]
                  /\ seen' = FoldSeq(record_seen, seen,
                                      WindowSeen(d.s.content, walkable, street, pos))
  /\ loc' = LocIdle
  /\ UNCHANGED <<walkable, street, checked, state, goal, saved, filled_banks, used_banks>>

\* The tick returns to the runner.
TickEnd ==
  /\ pc = "done"
  /\ pc' = "idle"
  /\ loc' = LocIdle
  /\ obs' = ObsIdle
  /\ UNCHANGED <<worldVars, robotVars, botVars>>

\* Calls of reach_position and wander_in_seach_of.
\* The observation of a probe is kept for one state.
ProbeSeen(o) == [o EXCEPT !.quad = "None", !.eligible = {}, !.probeAt = <<0, 0>>]
CallReach(l, target, ret) ==
  /\ pc' = "rp_down"
  /\ loc' = [l EXCEPT !.tgt = target, !.rpRet = ret]
  /\ obs' = [ProbeSeen(obs) EXCEPT !.goOk = 0, !.goErr = 0, !.rp0 = pos,
                                   !.e0 = energy, !.reached = <<>>]
CallWander(kind, ret) ==
  /\ pc' = "wander"
  /\ loc' = [loc EXCEPT !.wKind = kind, !.wRet = ret]
  /\ UNCHANGED obs

(***************************************************************************)
(* reach_position, lib.rs:280-295.  One action per loop: it issues one go  *)
(* while the loop's guard holds and moves on to the next loop otherwise.   *)
(***************************************************************************)
\* The gos of the call are counted; the count of the failed ones runs
\* within 1..MaxGoCalls once there has been one.
RpGo(d) ==
  /\ SetS(Go(S, d))
  /\ IF GoOk(S, d)
       THEN obs' = [obs EXCEPT !.goOk = @ + 1]
       ELSE obs' = [obs EXCEPT !.goErr = IF @ < MaxGoCalls THEN @ + 1 ELSE 1]
  /\ UNCHANGED <<pc, loc>>
RpLoop(at, guard, d, next) ==
  /\ pc = at
  /\ IF guard
       THEN RpGo(d)
       ELSE /\ pc' = next
            /\ UNCHANGED <<content, robotVars, loc, obs>>
  /\ UNCHANGED <<walkable, street, checked, botVars>>
RpDown == RpLoop("rp_down", RpDownGuard(pos, loc.tgt, energy), "Down", "rp_up")
RpUp == RpLoop("rp_up", RpUpGuard(pos, loc.tgt, energy), "Up", "rp_right")
RpRight == RpLoop("rp_right", RpRightGuard(pos, loc.tgt, energy), "Right", "rp_left")
RpLeft == RpLoop("rp_left", RpLeftGuard(pos, loc.tgt, energy), "Left", "rp_return")
RpReturn ==
  /\ pc = "rp_return"
  /\ pc' = loc.rpRet
  /\ obs' = [obs EXCEPT !.reached = <<RpResult(pos, loc.tgt)>>]
  /\ UNCHANGED <<worldVars, robotVars, botVars, loc>>

Panic ==
  /\ pc' = "panic"
  /\ UNCHANGED <<loc, obs>>

(***************************************************************************)
(* wander_in_seach_of, lib.rs:516-603.                                     *)
(***************************************************************************)
WanderKinds(kind) ==
  CASE kind = "coin" -> {COIN_LOOKING_FOR[i].kind : i \in 1..Len(COIN_LOOKING_FOR)}
    [] kind = "rock" -> {ROCK_LOOKING_FOR[i].kind : i \in 1..Len(ROCK_LOOKING_FOR)}
    [] kind = "bank" -> {BANK_LOOKING_FOR[i].kind : i \in 1..Len(BANK_LOOKING_FOR)}

\* lib.rs:517-598: destroy_area, the choice of a quadrant, the search and
\* what is done with a successful search for banks.
WanderProbe ==
  /\ pc = "wander"
  /\ LET d == destroy_area(S, free_banks, filled_banks)
         can == where_can_i_go(seen, pos)
     IN IF checked /\ ProbePanics(pos)
          THEN /\ SetS(d.s)
               /\ Panic
               /\ UNCHANGED free_banks
          ELSE \E i \in 1..Len(can) :
                 LET found == SearchFound(d.s, WanderKinds(loc.wKind), can[i])
                     ok == SearchOk(d.s)
                 IN /\ SetS(IF ok THEN [d.s EXCEPT !.energy = @ - Cost.search] ELSE d.s)
                    /\ obs' = [obs EXCEPT !.quad = can[i], !.eligible = Range(can),
                                          !.probeAt = pos]
                    /\ free_banks' = IF ok /\ loc.wKind = "bank"
                                       THEN MergeFound(free_banks, found)
                                       ELSE free_banks
                    /\ IF ok /\ loc.wKind # "bank"
                         THEN /\ pc' = "w_heap"
                              /\ loc' = [loc EXCEPT !.heap = HeapOf(pos, found)]
                         ELSE /\ pc' = "w_random"
                              /\ loc' = [loc EXCEPT !.k = 0]
  /\ UNCHANGED <<walkable, street, checked, state, goal, saved, filled_banks, used_banks, seen>>

\* lib.rs:590-594: the visit of the found coordinates.
WanderHeap ==
  /\ pc = "w_heap"
  /\ IF has_enough_energy(energy, HarvestEnergy) /\ loc.heap # {}
       THEN LET top == HeapPop(loc.heap)
            IN CallReach([loc EXCEPT !.heap = @ \ {top}], <<top[2], top[3]>>, "w_destroy")
       ELSE /\ pc' = "w_random"
            /\ loc' = [loc EXCEPT !.k = 0, !.heap = {}]
            /\ obs' = ProbeSeen(obs)
  /\ UNCHANGED <<worldVars, robotVars, botVars>>
WanderDestroy ==
  /\ pc = "w_destroy"
  /\ SetS(destroy_area(S, free_banks, filled_banks).s)
  /\ pc' = "w_heap"
  /\ UNCHANGED <<walkable, street, checked, botVars, loc, obs>>

\* lib.rs:599-601: four steps in random directions.
WanderRandom ==
  /\ pc = "w_random"
  /\ \E d \in Directions : SetS(Go(S, d))
  /\ pc' = IF loc.k + 1 = RandomSteps THEN loc.wRet ELSE "w_random"
  /\ loc' = [loc EXCEPT !.k = @ + 1]
  /\ obs' = ProbeSeen(obs)
  /\ UNCHANGED <<walkable, street, checked, botVars>>

(***************************************************************************)
(* coin_collect, rock_collect, trade, enjoy, search_for_bank.              *)
(***************************************************************************)
CoinCollect ==
  /\ pc = "coin_collect"
  /\ IF GoalInReach(goal, saved, backpack)
       THEN /\ state' = "Saving"
            /\ pc' = "done"
            /\ UNCHANGED <<loc, obs>>
       ELSE /\ CallWander("coin", "coin_exit")
            /\ UNCHANGED state
  /\ UNCHANGED <<worldVars, robotVars, goal, saved, free_banks, filled_banks,
                 used_banks, seen>>
CoinCollectExit ==
  /\ pc = "coin_exit"
  /\ state' = coin_collect_exit(backpack, state)
  /\ pc' = "done"
  /\ UNCHANGED <<worldVars, robotVars, goal, saved, free_banks, filled_banks,
                 used_banks, seen, loc, obs>>
RockCollect ==
  /\ pc = "rock_collect"
  /\ LET s1 == Put(S, "Coin", backpack.coin, "Up")
         s2 == Put(s1, "Garbage", s1.backpack.garbage, "Up")
     IN SetS(s2)
  /\ CallWander("rock", "rock_exit")
  /\ UNCHANGED <<walkable, street, checked, botVars>>
RockCollectExit ==
  /\ pc = "rock_exit"
  /\ state' = rock_collect_exit(backpack, state)
  /\ pc' = "done"
  /\ UNCHANGED <<worldVars, robotVars, goal, saved, free_banks, filled_banks,
                 used_banks, seen, loc, obs>>
Trade ==
  /\ pc = "trade"
  /\ backpack' = Recycled(backpack)
  /\ state' = trade_exit(Recycled(backpack))
  /\ pc' = "done"
  /\ UNCHANGED <<worldVars, pos, energy, goal, saved, free_banks, filled_banks,
                 used_banks, seen, loc, obs>>
Enjoy ==
  /\ pc = "enjoy"
  /\ pc' = "done"
  /\ UNCHANGED <<worldVars, robotVars, botVars, loc, obs>>
\* The state set whatever free_banks holds, to tell the two apart.
search_for_bank_exit_always(fb) == "Saving"
\* lib.rs:452-454: the state after the test of free_banks.
search_for_bank_exit(fb) == IF fb.key THEN "Saving" ELSE "BankSearching"
SearchForBank ==
  /\ pc = "search_for_bank"
  /\ state' = search_for_bank_exit(free_banks)
  /\ IF free_banks.key
       THEN /\ pc' = "done"
            /\ UNCHANGED <<free_banks, loc, obs>>
       ELSE /\ free_banks' = look_for_unknown_banks(free_banks, content, pos)
            /\ CallWander("bank", "done")
  /\ UNCHANGED <<worldVars, robotVars, goal, saved, filled_banks, used_banks, seen>>

(***************************************************************************)
(* save, lib.rs:623-689, with go_to_closest_open_bank, lib.rs:460-486.     *)
(***************************************************************************)
\* lib.rs:625-628 and 461-468
Save ==
  /\ pc = "save"
  /\ LET l == [loc EXCEPT !.c0 = closest_bank(free_banks, pos), !.p0 = pos]
     IN IF free_banks.key
          THEN CallReach(l, closest_bank(free_banks, pos), "gtcob_scan")
          ELSE /\ pc' = "wander"
               /\ loc' = [l EXCEPT !.wKind = "bank", !.wRet = "gtcob_scan"]
               /\ UNCHANGED obs
  /\ UNCHANGED <<worldVars, robotVars, botVars>>
\* lib.rs:470-485
GtcobScan ==
  /\ pc = "gtcob_scan"
  /\ IF checked /\ ScanPanics(content, pos)
       THEN Panic
       ELSE /\ pc' = "save_fallback"
            /\ loc' = [loc EXCEPT !.dir = ScanDirection(content, pos)]
            /\ UNCHANGED obs
  /\ UNCHANGED <<worldVars, robotVars, botVars>>
\* lib.rs:630-646: the robot stood on the closest bank when save began.
Fallback(s, dir) ==
  IF GoOk(s, "Left") THEN [s |-> Go(s, "Left"), dir |-> "Left"]
  ELSE IF GoOk(s, "Right") THEN [s |-> Go(s, "Right"), dir |-> "Right"]
  ELSE IF GoOk(s, "Up") THEN [s |-> Go(s, "Up"), dir |-> "Up"]
  ELSE [s |-> Go(s, "Down"), dir |-> "Down"]
SaveFallback ==
  /\ pc = "save_fallback"
  /\ IF loc.c0 = loc.p0
       THEN /\ SetS(Fallback(S, loc.dir).s)
            /\ loc' = [loc EXCEPT !.dir = Fallback(S, loc.dir).dir]
       ELSE UNCHANGED <<content, robotVars, loc>>
  /\ pc' = "save_put"
  /\ UNCHANGED <<walkable, street, checked, botVars, obs>>
\* lib.rs:647-688: the deposit and its bookkeeping.
SaveNoDirection ==
  /\ pc = "save_put"
  /\ loc.dir = "None"
  /\ state' = save_none_exit(goal, saved)
  /\ pc' = "done"
  /\ UNCHANGED <<worldVars, robotVars, goal, saved, free_banks, filled_banks,
                 used_banks, seen, loc, obs>>
\* The failed deposit entered as if the coins offered had been accepted, to
\* tell the two apart.
SavePutErrCounted ==
  /\ pc = "save_put"
  /\ loc.dir # "None"
  /\ PutResult(S, backpack.coin, loc.dir) = <<>>
  /\ pc' = "done"
  /\ saved' = saved + backpack.coin
  /\ used_banks' = UsedAfterPut(used_banks, pos, backpack.coin)
  /\ obs' = [obs EXCEPT !.put = <<[target |-> PutTarget(S, loc.dir),
                                   offered |-> backpack.coin, res |-> <<>>]>>]
  /\ UNCHANGED <<worldVars, robotVars, state, goal, free_banks, filled_banks, seen, loc>>
SavePutErr ==
  /\ pc = "save_put"
  /\ loc.dir # "None"
  /\ PutResult(S, backpack.coin, loc.dir) = <<>>
  /\ pc' = "done"
  /\ obs' = [obs EXCEPT !.put = <<[target |-> PutTarget(S, loc.dir),
                                   offered |-> backpack.coin, res |-> <<>>]>>]
  /\ UNCHANGED <<worldVars, robotVars, botVars, loc>>
SavePutOk ==
  /\ pc = "save_put"
  /\ loc.dir # "None"
  /\ PutResult(S, backpack.coin, loc.dir) # <<>>
  /\ LET quantity == PutResult(S, backpack.coin, loc.dir)[1]
     IN /\ SetS(Put(S, "Coin", backpack.coin, loc.dir))
        /\ free_banks' = FreeAfterPut(free_banks, loc.c0, quantity)
        /\ filled_banks' = FilledAfterPut(filled_banks, loc.c0, quantity)
        /\ saved' = SavedAfterPut(saved, quantity)
        /\ used_banks' = UsedAfterPut(used_banks, pos, quantity)
        /\ state' = save_ok_exit(goal, SavedAfterPut(saved, quantity))
        /\ obs' = [obs EXCEPT !.put = <<[target |-> PutTarget(S, loc.dir),
                                         offered |-> backpack.coin,
                                         res |-> <<quantity>>]>>]
  /\ pc' = "done"
  /\ UNCHANGED <<walkable, street, checked, goal, seen, loc>>

(***************************************************************************)
(* finish, lib.rs:739-770, with go_to_closest_used_bank, lib.rs:712-738.   *)
(***************************************************************************)
\* lib.rs:713-720: the iteration order of a HashMap is not fixed, so any of
\* the keys with the greatest amount may be the one found first.
Highest(used) ==
  IF DOMAIN used = {} THEN 0
  ELSE LET k == CHOOSE a \in DOMAIN used : \A b \in DOMAIN used : used[b] <= used[a]
       IN used[k]
BestUsed(used) ==
  IF Highest(used) = 0 THEN {<<0, 0>>}
  ELSE {k \in DOMAIN used : used[k] = Highest(used)}
Finish ==
  /\ pc = "finish"
  /\ \E best \in BestUsed(used_banks) : CallReach(loc, best, "finish_scan")
  /\ UNCHANGED <<worldVars, robotVars, botVars>>
FinishMoves(dir) ==
  CASE dir = "Up" -> <<"Left">>
    [] dir = "Down" -> <<"Left", "Down", "Down">>
    [] dir = "Left" -> <<"Down">>
    [] dir = "Right" -> <<"Down", "Left", "Left">>
\* asphalt_around, lib.rs:690-711: four projects, each designed and applied
\* with the result dropped.  The tool (asfalt_inator) is known by its
\* interface only: a project either fails and changes nothing, or turns the
\* tiles of its rectangle, laid from the robot's tile, into street and
\* charges the robot for it; the robot stays where it is.
Shapes == <<<<3, 1>>, <<1, 2>>, <<2, 1>>, <<1, 2>>>>
Rectangle(p, sh) ==
  {t \in Grid : /\ t[1] \in p[1]..(p[1] + sh[1] - 1)
                /\ t[2] \in p[2]..(p[2] + sh[2] - 1)}
asphalt_around(s, w, st) ==
  {[s |-> [s EXCEPT !.energy = @ - Cardinality(built) * Cost.asfalting],
    walkable |-> w \cup UNION {Rectangle(s.pos, Shapes[k]) : k \in built},
    street |-> st \cup UNION {Rectangle(s.pos, Shapes[k]) : k \in built}] :
     built \in {b \in SUBSET (1..Len(Shapes)) :
                  Cardinality(b) * Cost.asfalting <= s.energy}}
FinishScan ==
  /\ pc = "finish_scan"
  /\ IF checked /\ ScanPanics(content, pos)
       THEN /\ Panic
            /\ UNCHANGED <<content, walkable, street, robotVars, state>>
       ELSE /\ pc' = "done"
            /\ UNCHANGED <<loc, obs>>
            /\ IF ScanDirection(content, pos) # "None"
                  /\ has_enough_energy(energy, FinishEnergy)
                 THEN /\ \E after \in asphalt_around(
                              FoldSeq(Go, S, FinishMoves(ScanDirection(content, pos))),
                              walkable, street) :
                           /\ SetS(after.s)
                           /\ walkable' = after.walkable
                           /\ street' = after.street
                      /\ state' = "Enjoying"
                 ELSE UNCHANGED <<content, walkable, street, robotVars, state>>
  /\ UNCHANGED <<checked, goal, saved, free_banks, filled_banks, used_banks, seen>>

(***************************************************************************)
(* The worlds the robot is put in.  A world is the content of its tiles,   *)
(* the tiles that can be walked on and the robot's first coordinate.       *)
(***************************************************************************)
Place(items) ==
  [t \in Grid |-> IF \E it \in items : it[1] = t
                    THEN (CHOOSE it \in items : it[1] = t)[2]
                    ELSE Nothing]
Field == (2..3) \X (1..3)
\* Coins and rocks beside the start, two banks one above the other.
TwoBanks(capacity, more) ==
  [content |-> Place({<<<<3, 1>>, Coin(12)>>, <<<<3, 2>>, Rock(8)>>,
                      <<<<2, 3>>, Bank(15)>>, <<<<3, 3>>, Bank(capacity)>>} \cup more),
   walkable |-> Field,
   start |-> <<2, 1>>]
\* The worlds and goals the robot is built with: an exhausted bank, a bank
\* that takes a part of the coins and one that takes them all; no goal, a goal
\* the coins of the world reach, one they do not and one met from the start.
\* The tree of the first world stands beside the lower bank, where a put
\* issued to the right from the bank tile meets it and fails.
Configs ==
  {[world |-> TwoBanks(0, {<<<<3, 4>>, Tree(1)>>}), goal |-> <<>>],
   [world |-> TwoBanks(5, {}), goal |-> <<20>>],
   [world |-> TwoBanks(15, {<<<<4, 0>>, Tree(1)>>}), goal |-> <<12>>],
   [world |-> TwoBanks(15, {}), goal |-> <<0>>]}

\* SaverBot::new (lib.rs:255-272) in one of the worlds: nothing held, nothing
\* saved, no bank known, nothing seen, state CoinCollecting.
InitIn(configs) ==
  /\ \E c \in configs :
       /\ content = c.world.content
       /\ walkable = c.world.walkable
       /\ street = {}
       /\ pos = c.world.start
       /\ goal = c.goal
  /\ checked \in BOOLEAN
  /\ energy = MaxEnergy
  /\ backpack = [coin |-> 0, rock |-> 0, garbage |-> 0]
  /\ state = "CoinCollecting"
  /\ saved = 0
  /\ free_banks = EmptyMap
  /\ filled_banks = EmptyMap
  /\ used_banks = <<>>
  /\ seen = <<>>
  /\ pc = "idle"
  /\ loc = LocIdle
  /\ obs = ObsIdle
Init == InitIn(Configs)

Next ==
  \/ Recharge
  \/ ProcessTick
  \/ TickEnd
  \/ RpDown
  \/ RpUp
  \/ RpRight
  \/ RpLeft
  \/ RpReturn
  \/ WanderProbe
  \/ WanderHeap
  \/ WanderDestroy
  \/ WanderRandom
  \/ CoinCollect
  \/ CoinCollectExit
  \/ RockCollect
  \/ RockCollectExit
  \/ Trade
  \/ Enjoy
  \/ SearchForBank
  \/ Save
  \/ GtcobScan
  \/ SaveFallback
  \/ SaveNoDirection
  \/ SavePutErr
  \/ SavePutOk
  \/ Finish
  \/ FinishScan

Spec == Init /\ [][Next]_vars

(***************************************************************************)
(* reach_position on its own: calls with any target of the grid, from any  *)
(* tile of the field, with energies on both sides of the step threshold.   *)
(***************************************************************************)
NavEnergies == {0, StepEnergy - 1, StepEnergy, 2 * StepEnergy, MaxEnergy}
RpPcs == {"rp_down", "rp_up", "rp_right", "rp_left", "rp_return"}
InitNav ==
  /\ content = Place({})
  /\ walkable = Field
  /\ street = {}
  /\ pos \in Field
  /\ checked \in BOOLEAN
  /\ energy \in NavEnergies
  /\ backpack = [coin |-> 0, rock |-> 0, garbage |-> 0]
  /\ state = "CoinCollecting"
  /\ goal = <<>>
  /\ saved = 0
  /\ free_banks = EmptyMap
  /\ filled_banks = EmptyMap
  /\ used_banks = <<>>
  /\ seen = <<>>
  /\ pc = "nav_call"
  /\ loc = LocIdle
  /\ obs = ObsIdle
\* A caller of reach_position (lib.rs:465, 592, 725) with some target.
NavCall ==
  /\ pc = "nav_call"
  /\ \E target \in Grid : CallReach(LocIdle, target, "nav_call")
  /\ UNCHANGED <<worldVars, robotVars, botVars>>
NextNav ==
  \/ NavCall
  \/ RpDown
  \/ RpUp
  \/ RpRight
  \/ RpLeft
  \/ RpReturn
SpecNav == InitNav /\ [][NextNav]_vars
\* The program runs its next statement: a call in progress is not put aside.
SpecNavLive == SpecNav /\ WF_vars(NextNav)

(***************************************************************************)
(* The probes of wander_in_seach_of in an empty world whose walkable tiles *)
(* let the robot see the four probe points of the centre tile.             *)
(***************************************************************************)
Cross == {<<1, 1>>, <<1, 2>>, <<1, 3>>, <<2, 2>>, <<3, 1>>, <<3, 2>>, <<3, 3>>}
Empty == [content |-> Place({}), walkable |-> Cross, start |-> <<2, 2>>]
InitSearch == InitIn({[world |-> Empty, goal |-> <<>>]})
NextSearch ==
  \/ Recharge
  \/ ProcessTick
  \/ TickEnd
  \/ CoinCollect
  \/ CoinCollectExit
  \/ WanderProbe
  \/ WanderHeap
  \/ WanderRandom
SpecSearch == InitSearch /\ [][NextSearch]_vars

(***************************************************************************)
(* destroy_area on its own: a robot just built stands at the centre of the *)
(* grid with one bank on one of the eight tiles around it and one rock,    *)
(* of amount 0 or 8, on another tile of its window (its own tile           *)
(* included); the first process_tick runs up to the dispatch of the        *)
(* handler.                                                                *)
(***************************************************************************)
Centre == <<2, 2>>
WindowOf(p) == {WindowCoord(p, ij[1], ij[2]) : ij \in Range(WindowIdx)} \cap Grid
HarvestWorld(b, t, c) ==
  [content |-> Place({<<b, Bank(15)>>, <<t, c>>}), walkable |-> {Centre}, start |-> Centre]
HarvestConfigs ==
  {[world |-> HarvestWorld(b, t, c), goal |-> <<>>] :
     <<b, t, c>> \in {x \in (WindowOf(Centre) \ {Centre}) \X WindowOf(Centre) \X {Rock(0), Rock(8)} :
                        x[1] # x[2]}}
InitHarvest == InitIn(HarvestConfigs)
NextHarvest == ProcessTick
SpecHarvest == InitHarvest /\ [][NextHarvest]_vars

(***************************************************************************)
(* The visit of the found coordinates: a robot just built stands at the    *)
(* centre of the grid and can walk the bottom right quadrant, which has    *)
(* two rocks out of the robot's window on its rim; it is not recharged, so *)
(* the ticks of CoinCollecting go on until the energy fails the admission. *)
(***************************************************************************)
BottomRightOf(p) == {t \in Grid : t[1] >= p[1] /\ t[2] >= p[2]}
Rim == BottomRightOf(Centre) \ WindowOf(Centre)
VisitWorld(t1, t2) ==
  [content |-> Place({<<t1, Rock(1)>>, <<t2, Rock(1)>>}),
   walkable |-> BottomRightOf(Centre), start |-> Centre]
VisitConfigs ==
  {[world |-> VisitWorld(x[1], x[2]), goal |-> <<>>] :
     x \in {y \in Rim \X Rim : y[1] # y[2]}}
InitVisit == InitIn(VisitConfigs)
NextVisit ==
  \/ ProcessTick
  \/ TickEnd
  \/ CoinCollect
  \/ CoinCollectExit
  \/ WanderProbe
  \/ WanderHeap
  \/ WanderDestroy
  \/ WanderRandom
  \/ RpDown
  \/ RpUp
  \/ RpRight
  \/ RpLeft
  \/ RpReturn
SpecVisit == InitVisit /\ [][NextVisit]_vars

(***************************************************************************)
(* The properties.                                                         *)
(***************************************************************************)
Free == MapCoords(free_banks)
Filled == MapCoords(filled_banks)
\* The deposit of this tick, once it has been made.
Deposited == pc = "done" /\ obs.handler = "Saving" /\ obs.put # <<>> /\ obs.put[1].res # <<>>
\* A step that makes the deposit of a Saving tick and gets Ok back.
DepositStep == pc = "save_put" /\ obs'.put # <<>> /\ obs'.put[1].res # <<>>

\* C1: in every reachable state no coordinate is both in free_banks and in
\* filled_banks.
C1_FreeFilledDisjoint == Free \cap Filled = {}

\* C2: when the deposit of a Saving tick returns 0 for the landmark the coins
\* were offered to, that landmark is afterwards in Filled and not in Free, no
\* other coordinate has changed its status and saved is what it was.
C2_ExhaustedBankIsMarked ==
  [][(DepositStep /\ obs'.put[1].res = <<0>>) =>
       LET L == obs'.put[1].target
       IN /\ L \in MapCoords(filled_banks')
          /\ L \notin MapCoords(free_banks')
          /\ \A c \in (Grid \cup Free \cup Filled) \ {L} :
               /\ (c \in MapCoords(free_banks')) = (c \in Free)
               /\ (c \in MapCoords(filled_banks')) = (c \in Filled)
          /\ saved' = saved]_vars

\* C3: when the deposit of a Saving tick returns q > 0, saved grows by exactly
\* q and the deposit leaves free_banks and filled_banks as they were.
C3_DepositAddsAccepted ==
  [][(DepositStep /\ obs'.put[1].res # <<0>>) =>
       /\ obs'.handler = "Saving"
       /\ obs'.put[1].res[1] > 0
       /\ saved' = saved + obs'.put[1].res[1]
       /\ free_banks' = free_banks
       /\ filled_banks' = filled_banks]_vars
C3_Witness ==
  /\ Deposited
  /\ obs.put[1].res[1] > 0
  /\ obs.put[1].res[1] < obs.put[1].offered
  /\ saved = obs.put[1].res[1]
  /\ Free # {}

\* C4: saved never decreases, and it changes only in the step of a Saving
\* tick whose deposit returned Ok.
C4_SavedMonotone ==
  [][/\ saved' >= saved
     /\ saved' # saved => (DepositStep /\ obs.handler = "Saving" /\ state = "Saving")]_vars
C4_Witness == pc = "idle" /\ saved >= CoinLimit /\ state = "CoinCollecting"

\* C5: in an admitted tick handled in state CoinCollecting, when at least 12
\* coins are held as the exit condition is evaluated, the state after the tick
\* is Saving, whatever the garbage and rock counts and the goal.
C5_TwelveCoinsMeanSaving ==
  [][(pc = "coin_exit" /\ backpack.coin >= CoinLimit) =>
       (obs.handler = "CoinCollecting" /\ pc' = "done" /\ state' = "Saving")]_vars
C5_Witness ==
  /\ pc = "done"
  /\ obs.handler = "CoinCollecting"
  /\ backpack.coin >= CoinLimit
  /\ backpack.rock >= RockLimit
  /\ loc.wRet = "coin_exit"
  /\ goal # <<>>
  /\ state = "Saving"

\* C6: reach_position called with less energy than the step threshold issues
\* no go at all, leaves the robot where it is, and returns true exactly when
\* the robot was at the target already.
C6_NoEnergyNoMove ==
  ((pc \in RpPcs \/ obs.reached # <<>>) /\ obs.e0 < StepEnergy) =>
    /\ obs.goOk = 0
    /\ obs.goErr = 0
    /\ pos = obs.rp0
    /\ energy = obs.e0
    /\ obs.reached # <<>> => obs.reached[1] = (obs.rp0 = loc.tgt)
C6_Witness ==
  /\ pc = "nav_call"
  /\ obs.reached = <<FALSE>>
  /\ obs.e0 = StepEnergy - 1
  /\ loc.tgt # obs.rp0
C6_WitnessAtTarget ==
  /\ pc = "nav_call"
  /\ obs.reached = <<TRUE>>
  /\ obs.e0 < StepEnergy

\* C7: every call of reach_position comes to its end, also when a step
\* towards the target is blocked (go returns an error and takes no energy,
\* with 50 or more left).
C7_ReachPositionEnds == (pc \in RpPcs) ~> (pc = "nav_call")
\* The blocked step of C7: the loop's guard holds, go fails and nothing changes.
C7_Blocked ==
  /\ pc = "rp_up"
  /\ RpUpGuard(pos, loc.tgt, energy)
  /\ ~GoOk(S, "Up")
  /\ obs.goErr = MaxGoCalls

\* C8: the quadrant a probe searches has an unseen probe point whenever one
\* of the four has; when all four probe points are seen, all four quadrants
\* are eligible.
ProbeUnseen(p) ==
  {q \in Range(Quadrants) : \A e \in Range(seen) : e[1] # ProbePoint(p, q)}
C8_ProbeAnUnseenQuadrant ==
  obs.quad # "None" =>
    /\ ProbeUnseen(obs.probeAt) # {} =>
         (obs.quad \in ProbeUnseen(obs.probeAt) /\ obs.eligible = ProbeUnseen(obs.probeAt))
    /\ ProbeUnseen(obs.probeAt) = {} => obs.eligible = Range(Quadrants)
C8_Witness ==
  /\ obs.quad # "None"
  /\ ProbeUnseen(obs.probeAt) # {}
  /\ ProbeUnseen(obs.probeAt) # Range(Quadrants)
C8_WitnessAllSeen ==
  /\ obs.quad # "None"
  /\ ProbeUnseen(obs.probeAt) = {}

\* C9: a coordinate that enters Filled was in Free immediately before.
C9_FilledComesFromFree ==
  [][\A c \in MapCoords(filled_banks') \ Filled : c \in Free]_vars

\* C10: a perception merge in which every bank tile of the window is already
\* in Free or in Filled leaves both as they were; a bank in Filled is not
\* put into Free again.
WindowBanks(cont, p) ==
  {WindowCoord(p, ij[1], ij[2]) : ij \in Range(BankTiles(cont, p))}
C10_KnownBanksAreNotMergedAgain ==
  [][(pc = "idle" /\ pc' # "idle" /\ WindowBanks(content, pos) \subseteq Free \cup Filled) =>
       (free_banks' = free_banks /\ filled_banks' = filled_banks)]_vars

\* C11: a tick processed in state Enjoying issues no move, destroy, deposit,
\* convert or construct call: it leaves the world, the robot's coordinate,
\* energy and backpack as they are.
C11_EnjoyingDoesNothing ==
  [][(state = "Enjoying" /\ pc' # "idle") =>
       UNCHANGED <<content, backpack, energy, pos>>]_vars

\* C12: a tick whose energy after the perception merge and the foraging is
\* below 150 runs no handler: state, saved, used_banks and the robot's
\* coordinate are after the tick what they were before it.
C12_GatedTickRunsNoHandler ==
  [][/\ (pc = "idle" /\ pc' # "idle" /\ energy' < TickEnergy) =>
          /\ pc' = "done"
          /\ obs'.handler = "gate"
          /\ UNCHANGED <<state, saved, used_banks, pos>>
     /\ (pc = "done" /\ obs.handler = "gate") =>
          /\ pc' = "idle"
          /\ UNCHANGED <<state, saved, used_banks, pos>>]_vars
C12_Witness ==
  /\ pc = "done"
  /\ obs.handler = "gate"
  /\ energy < TickEnergy
  /\ state = "Saving"
  /\ Free # {}

\* C13: no move is attempted in a state whose energy is below the threshold
\* of its cost class: 50 for a single step, 500 for the finishing maneuver.
\* The states in which the next statement of the program is a go:
StepAttempted ==
  \/ pc = "w_random"
  \/ pc = "rp_down" /\ RpDownGuard(pos, loc.tgt, energy)
  \/ pc = "rp_up" /\ RpUpGuard(pos, loc.tgt, energy)
  \/ pc = "rp_right" /\ RpRightGuard(pos, loc.tgt, energy)
  \/ pc = "rp_left" /\ RpLeftGuard(pos, loc.tgt, energy)
  \/ pc = "save_fallback" /\ loc.c0 = loc.p0
ManeuverAttempted ==
  /\ pc = "finish_scan"
  /\ ~(checked /\ ScanPanics(content, pos))
  /\ ScanDirection(content, pos) # "None"
  /\ has_enough_energy(energy, FinishEnergy)
C13_ActionsArePrechecked ==
  /\ StepAttempted => energy >= StepEnergy
  /\ ManeuverAttempted => energy >= FinishEnergy

\* C14: when the deposit of a Saving tick fails with an interface error the
\* tick still completes, and saved and every amount of used_banks are what
\* they were before the tick: in a Saving tick only a deposit that returned
\* Ok writes them.
FailedDepositStep == pc = "save_put" /\ obs'.put # <<>> /\ obs'.put[1].res = <<>>
C14_FailedDepositCountsNothing ==
  [][/\ FailedDepositStep => pc' = "done"
     /\ (obs.handler = "Saving" /\ ~DepositStep) => UNCHANGED <<saved, used_banks>>]_vars
C14_Witness ==
  /\ pc = "done"
  /\ obs.handler = "Saving"
  /\ obs.put # <<>>
  /\ obs.put[1].res = <<>>
  /\ obs.put[1].offered >= CoinLimit
  /\ DOMAIN used_banks # {}

\* C15: the state starts as CoinCollecting and every change of the state is
\* one of the listed edges; no edge leaves Enjoying.
Edges ==
  {<<"CoinCollecting", "Saving">>, <<"CoinCollecting", "Trading">>,
   <<"Trading", "Saving">>, <<"Trading", "CoinCollecting">>,
   <<"Saving", "RockCollecting">>, <<"Saving", "CoinCollecting">>,
   <<"Saving", "BankSearching">>, <<"BankSearching", "Saving">>,
   <<"RockCollecting", "Finish">>, <<"Finish", "Enjoying">>}
C15_OnlyListedEdges ==
  /\ state = "CoinCollecting"
  /\ [][state' # state => <<state, state'>> \in Edges]_vars
C15_Witness ==
  /\ pc = "idle"
  /\ state = "Enjoying"
  /\ goal # <<>>
  /\ saved >= goal[1]
  /\ backpack.rock >= RockGoal

\* C16: the state changes from Saving to RockCollecting only in a tick whose
\* deposit succeeded, with a goal set and saved at least the goal afterwards;
\* a Saving tick that finds no deposit direction changes the state to
\* BankSearching.
C16_RocksOnlyAfterDeposit ==
  [][/\ (state = "Saving" /\ state' = "RockCollecting") =>
          (DepositStep /\ goal # <<>> /\ saved' >= goal[1])
     /\ (pc = "save_put" /\ loc.dir = "None") => state' = "BankSearching"]_vars

\* C17: a tick handled in BankSearching changes the state to Saving exactly
\* when free_banks holds at least one coordinate as the handler runs; with no
\* coordinate in it the state stays BankSearching to the end of the tick.
C17_SavingIffAFreeBank ==
  [][/\ pc = "search_for_bank" =>
          /\ (state' = "Saving") <=> (Free # {})
          /\ (Free = {}) => state' = "BankSearching"
     /\ (obs.handler = "BankSearching" /\ pc # "search_for_bank") =>
          state' = state]_vars
C17_Witness == pc = "done" /\ obs.handler = "BankSearching" /\ state = "Saving" /\ Free # {}
C17_WitnessStays == pc = "done" /\ obs.handler = "BankSearching" /\ state = "BankSearching"

\* The (coordinate, content) pair of an entry of seen.
SeenPair(e) == <<e[1], e[2].content>>
\* seen holds no (coordinate, content) pair twice.
NoDuplicatePair(sn) ==
  \A j, k \in 1..Len(sn) : SeenPair(sn[j]) = SeenPair(sn[k]) => j = k
\* A tick that fails the admission test with a window tile seen holds under
\* no coordinate.
GatedTickRecordsNothing ==
  /\ pc = "done"
  /\ obs.handler = "gate"
  /\ \E e \in Range(WindowSeen(content, walkable, street, pos)) :
       \A f \in Range(seen) : f[1] # e[1]

\* C18: every tick, the ticks that fail the admission test included, records
\* every present tile of its window in seen with its coordinate; seen never
\* loses an entry and holds no (coordinate, content) pair twice.
C18_EveryTickRecordsItsWindow ==
  [][/\ (pc = "idle" /\ pc' # "idle") =>
          \A e \in Range(WindowSeen(content', walkable', street', pos')) :
            \E f \in Range(seen') : SeenPair(f) = SeenPair(e)
     /\ Len(seen) <= Len(seen') /\ seen = SubSeq(seen', 1, Len(seen))
     /\ NoDuplicatePair(seen')]_vars
\* The three parts of C18 taken one at a time.
C18_WindowRecorded ==
  [][(pc = "idle" /\ pc' # "idle") =>
       \A e \in Range(WindowSeen(content', walkable', street', pos')) :
         \E f \in Range(seen') : SeenPair(f) = SeenPair(e)]_vars
C18_NeverLoses == [][Len(seen) <= Len(seen') /\ seen = SubSeq(seen', 1, Len(seen))]_vars
C18_NoDuplicatePair == NoDuplicatePair(seen)

\* The known banks at Chebyshev distance 1 from p.
Chebyshev(a, b) ==
  IF Abs(a[1] - b[1]) > Abs(a[2] - b[2]) THEN Abs(a[1] - b[1]) ELSE Abs(a[2] - b[2])
AdjacentKnown(p, fb, filled) == {c \in BanksPoints(fb, filled) : Chebyshev(c, p) = 1}
\* The maps destroy_area reads at its three call sites: process_tick calls it
\* after look_for_unknown_banks (lib.rs:168-169), wander_in_seach_of calls it
\* with the maps as they are (lib.rs:517, 593).
HarvestFree ==
  IF pc = "idle" THEN look_for_unknown_banks(free_banks, content, pos) ELSE free_banks
\* A step that runs destroy_area, and what it does.
HarvestStep == pc \in {"idle", "wander", "w_destroy"} /\ pc' # pc
Harvest == destroy_area(S, HarvestFree, filled_banks)

\* C19: whenever a known bank (one of free_banks or filled_banks) lies at
\* Chebyshev distance 1 from the robot, at any of the eight offsets,
\* destroy_area takes the tile by tile path and runs no DestroyZone.
C19_AdjacentBankMeansTilePath ==
  [][(HarvestStep /\ AdjacentKnown(pos, HarvestFree, filled_banks) # {}) =>
       Harvest.path = "tile"]_vars

\* C20: on the tile by tile path every destroy is aimed at a tile of the
\* window whose content is of a wanted kind and is no bank: the direction
\* leads from the robot to such a tile, and no destroy is issued for the
\* robot's own tile.  A call is <<window index, direction, energy>>.
WantedKinds == {COIN_LOOKING_FOR[k].kind : k \in 1..Len(COIN_LOOKING_FOR)}
AimedAtWanted(call) ==
  /\ call[1] # <<1, 1>>
  /\ Step(pos, call[2]) \in Grid
  /\ content[Step(pos, call[2])].kind \in WantedKinds \ {"Bank"}
C20_DestroyAimsAtWantedTile ==
  [][(HarvestStep /\ Harvest.path = "tile") =>
       \A call \in Harvest.calls : AimedAtWanted(call)]_vars

\* A probe for banks whose search succeeded, and the coordinates it returned.
BankProbeStep ==
  /\ pc = "wander"
  /\ loc.wKind = "bank"
  /\ obs'.quad # "None"
  /\ SearchOk(Harvest.s)
BankProbeFound == SearchFound(Harvest.s, WanderKinds("bank"), obs'.quad)
Count(s, e) == Len(SelectSeq(s, LAMBDA b : b = e))

\* C21: after a successful search for banks every coordinate the search
\* returned is in free_banks, also when free_banks was empty before, and a
\* returned coordinate that was already there is not saved a second time.
C21_FoundBanksAreMerged ==
  [][BankProbeStep =>
       \A k \in 1..Len(BankProbeFound) :
         /\ BankProbeFound[k] \in MapCoords(free_banks')
         /\ BankProbeFound[k] \in Free =>
              Count(free_banks'.banks, BankProbeFound[k]) = Count(free_banks.banks, BankProbeFound[k])]_vars

\* A step of the loop at lib.rs:590-594 that takes a candidate from the heap.
HeapPopStep == pc = "w_heap" /\ loc'.heap # loc.heap /\ pc' # "w_random"
Popped == CHOOSE a \in loc.heap : a \notin loc'.heap

\* C22: in a probe for collectables the candidates are visited nearest first,
\* by the Manhattan distance from the position at which the heap was built,
\* and a candidate is taken only while the energy is at least 400 and the
\* heap is not empty.
C22_NearestCandidateFirst ==
  [][HeapPopStep =>
       /\ energy >= HarvestEnergy
       /\ loc.heap # {}
       /\ \A b \in loc.heap : Popped[1] <= b[1]]_vars

\* The call of closest_bank at the head of save (lib.rs:625) and its result.
ClosestCallStep == pc = "save" /\ pc' # "save"
FirstNearest(banks, p, r) ==
  \E k \in 1..Len(banks) :
    /\ banks[k] = r
    /\ \A j \in 1..Len(banks) : Manhattan(r, p) <= Manhattan(banks[j], p)
    /\ \A j \in 1..(k - 1) : Manhattan(banks[j], p) > Manhattan(r, p)

\* C23: closest_bank returns the member of free_banks nearest to the robot by
\* Manhattan distance, the first of them in scan order, whenever free_banks
\* holds a coordinate, and returns no coordinate when it holds none.
C23_ClosestBankIsNearestOrNone ==
  [][ClosestCallStep =>
       IF Free # {} THEN FirstNearest(free_banks.banks, pos, loc'.c0)
       ELSE loc'.c0 \notin Grid]_vars

\* A deposit that a known bank accepted.
BankDeposited ==
  /\ Deposited
  /\ content[obs.put[1].target].kind = "Bank"
  /\ obs.put[1].target \in Free \cup Filled

\* C24: every key of used_banks is the coordinate of a known bank (one of
\* free_banks or filled_banks), and the quantity a deposit accepted is added
\* to the entry of the bank that received the coins.  Stated for the states
\* that follow a deposit into a known bank.
C24_LedgerIsKeyedByBank ==
  BankDeposited =>
    /\ \A k \in DOMAIN used_banks : k \in Free \cup Filled
    /\ obs.put[1].target \in DOMAIN used_banks
    /\ used_banks[obs.put[1].target] >= obs.put[1].res[1]

\* A step of a Saving tick that issues the put.
PutStep == pc = "save_put" /\ obs'.put # <<>>

\* C25: in a Saving tick the put is issued only with a direction whose tile,
\* next to the robot as it stands at the call, holds a bank; also when the
\* robot stood on the bank and stepped off it through the fallback.
C25_DepositAimsAtBank ==
  [][PutStep =>
       /\ obs'.put[1].target \in Grid
       /\ content[obs'.put[1].target].kind = "Bank"]_vars

\* The step of finish that sets Enjoying, taken after the navigation.
EnjoyStep == state = "Finish" /\ state' = "Enjoying"
\* The known banks whose entry in used_banks is the greatest one.
BestBanks ==
  {b \in Free \cup Filled :
     b \in DOMAIN used_banks /\ used_banks[b] > 0 /\ used_banks[b] = Highest(used_banks)}

\* C26: the state changes from Finish to Enjoying only in a tick in which,
\* after the navigation, the energy is at least 500 and the robot is next to
\* the known bank with the greatest amount in used_banks; otherwise a Finish
\* tick leaves the state Finish.
C26_EnjoyingOnlyAtBestBank ==
  [][/\ EnjoyStep =>
          /\ energy >= FinishEnergy
          /\ \E b \in BestBanks : Chebyshev(b, pos) <= 1
     /\ (obs.handler = "Finish" /\ state' # state) => state' = "Enjoying"]_vars

\* C27: no tick aborts on a coordinate computation: wherever the robot
\* stands, rows and columns 0 and 1 included, the unsigned subtractions of
\* the four probe points (row - 2, column - 2) and of the deposit direction
\* (row - 1) do not go below zero.
C27_NoCoordinateUnderflow ==
  /\ pc # "panic"
  /\ pc = "wander" => ~ProbePanics(pos)
  /\ pc \in {"gtcob_scan", "finish_scan"} => ~ScanPanics(content, pos)

\* The sum of the amounts of used_banks.
RECURSIVE SumOver(_, _)
SumOver(used, keys) ==
  IF keys = {} THEN 0
  ELSE LET k == CHOOSE a \in keys : TRUE
       IN used[k] + SumOver(used, keys \ {k})
LedgerTotal == SumOver(used_banks, DOMAIN used_banks)

\* C28: in every reachable state the amounts of used_banks add up to saved.
C28_LedgerAddsUpToSaved == LedgerTotal = saved
C28_Witness ==
  /\ Cardinality(DOMAIN used_banks) >= 2
  /\ \A k \in DOMAIN used_banks : used_banks[k] > 0
  /\ saved > 0
====
